---- MODULE Spec2Model ----
(***************************************************************************)
(* The Crust storage migration script (src/script.js): the checkpoint log  *)
(* file, the work-list pipeline of main(), the promise/callback machinery  *)
(* of placeCrustOrder() and the sequential loop of main(), over several    *)
(* runs of the process with kills and restarts in between.                 *)
(***************************************************************************)
EXTENDS Integers, Sequences, FiniteSets, TLC

\* ------------------------------------------------------------------ bounds
MaxVideos == 2
MaxClips == 1
MaxRuns == 2
MaxCallbacks == 2
MaxBlockEvents == 2
MaxLogged == 1

\* ------------------------------------------------------------ input domains
\* ipfs_cid column values: three well-formed CIDs and one string CID.parse rejects
ValidCids == {"cidA", "cidB", "cidC"}
Cids == ValidCids \cup {"MIGRATED"}
\* the CIDs of the catalogs that are followed over several runs
RestartCids == {"cidA", "cidB", "MIGRATED"}

\* event.method values carried by an InBlock status
Methods == {"ExtrinsicSuccess", "ExtrinsicFailed", "Other"}
\* status.type values; "Invalid" stands for the explicit error statuses
Statuses == {"Broadcast", "InBlock", "Finalized", "Invalid"}

RECURSIVE SeqsUpTo(_, _)
SeqsUpTo(S, n) ==
  IF n = 0 THEN {<<>>}
  ELSE LET shorter == SeqsUpTo(S, n - 1)
       IN  shorter \cup {Append(s, x) : s \in {t \in shorter : Len(t) = n - 1}, x \in S}

EventLists == SeqsUpTo(Methods, MaxBlockEvents)

\* fs.stat() results: fileSize and cumulativeSize, 0 standing for 0/undefined
StatResults == [fileSize : 0..1, cumulativeSize : 0..1]

VARIABLES
  videos,          \* rows of prisma.video with a CID, as the sequence of ipfs_cid
  clips,           \* rows of prisma.videoClip with a CID
  fileExists,      \* processed_cids.log exists on disk
  file,            \* its lines
  run,             \* number of the current process run
  pc,              \* where main() stands
  exitCode,        \* -1 while running, else the process's exit code (137: killed)
  processedCids,   \* the Set loadProcessedCids() returned
  loadFailed,      \* readFileSync threw in this run
  itemsToProcess,  \* the work list of this run
  idx,             \* index of the item the for loop is at
  sub,             \* per CID: the promise and subscription of placeCrustOrder in this run
  failed,          \* CIDs whose iteration ended in the catch block in this run
  logged,          \* CIDs appendFileSync wrote in this run
  writeFailed,     \* CIDs for which appendFileSync threw in this run
  sentSize,        \* per CID: the fileSize passed to placeStorageOrder in this run (0: none)
  sizeUnavailable, \* CIDs for which fs.stat threw or reported no size in this run
  everSucceeded,   \* CIDs whose order was seen to succeed on chain, in any run
  resubmitted,     \* CIDs submitted again after they had succeeded
  heliaStopped,    \* helia.stop() was called in this run
  prismaClosed,    \* prisma.$disconnect() was called in this run
  heliaCreated,    \* createHeliaHTTP() returned a client in this run
  apiOpen,         \* new ApiPromise opened the ledger socket and nothing closed it
  startupError,    \* the error main() threw before the loop in this run ("none": none)
  lostWrites       \* CIDs whose append failed in some run and that have no record since

vars == <<videos, clips, fileExists, file, run, pc, exitCode, processedCids, loadFailed,
          itemsToProcess, idx, sub, failed, logged, writeFailed, sentSize,
          sizeUnavailable, everSucceeded, resubmitted, heliaStopped, prismaClosed,
          heliaCreated, apiOpen, startupError, lostWrites>>

\* ------------------------------------------------------- checkpoint log file
\* data.split("\n") of a file made of `${cid}\n` appends: the lines, then ""
SplitLines(lines) == lines \o <<"">>

\* loadProcessedCids(): the Set of non-blank lines when the file exists and can
\* be read; an empty Set when it does not exist and also when reading throws
LoadProcessedCids(exists, readOk, lines) ==
  IF exists /\ readOk
  THEN LET parts == SplitLines(lines)
       IN  {parts[i] : i \in {j \in DOMAIN parts : parts[j] # ""}}
  ELSE {}

\* an append that does not reach the file
AppendLine_Lost(lines, cid) == lines

\* fs.appendFileSync(PROCESSED_LOG_FILE, `${cid}\n`)
AppendLine(lines, cid) == Append(lines, cid)

\* ------------------------------------------------------------ work-list build
\* isValidCID(): CID.parse(cidString) does not throw
\* a check that lets every string through
IsValidCID_Always(cidString) == TRUE

IsValidCID(cidString) == cidString \in ValidCids

\* allItems: the videos, then the clips, each with its id and type
AllItems(vs, cs) ==
  [i \in 1..Len(vs) |-> [id |-> i, cid |-> vs[i], type |-> "Video"]]
  \o [i \in 1..Len(cs) |-> [id |-> i, cid |-> cs[i], type |-> "VideoClip"]]

\* validItems: allItems.filter(item => isValidCID(item.cid))
ValidItems(items) == SelectSeq(items, LAMBDA item : IsValidCID(item.cid))

\* a set() that moves an existing key to the end
MapSet_MoveToEnd(entries, item) ==
  Append(SelectSeq(entries, LAMBDA e : e.cid # item.cid), item)

\* Map.prototype.set: a new key goes last, an existing key keeps its place and
\* takes the new value
MapSet(entries, item) ==
  IF \E i \in DOMAIN entries : entries[i].cid = item.cid
  THEN [i \in DOMAIN entries |-> IF entries[i].cid = item.cid THEN item ELSE entries[i]]
  ELSE Append(entries, item)

RECURSIVE MapOf(_, _)
MapOf(entries, items) ==
  IF items = <<>> THEN entries
  ELSE MapOf(MapSet(entries, Head(items)), Tail(items))

\* the list taken as it is, without the Map
UniqueCids_NoDedup(items) == items

\* uniqueCids: [...new Map(validItems.map(item => [item.cid, item])).values()]
UniqueCids(items) == MapOf(<<>>, items)

\* the filter left out
ItemsToProcess_NoFilter(unique, processed) == unique

\* itemsToProcess: uniqueCids.filter(item => !processedCids.has(item.cid))
ItemsToProcess(unique, processed) ==
  SelectSeq(unique, LAMBDA item : item.cid \notin processed)

BuildWorkList(vs, cs, processed) ==
  ItemsToProcess(UniqueCids(ValidItems(AllItems(vs, cs))), processed)

\* ---------------------------------------------------------------- size lookup
\* getFileStats(): stat.fileSize || stat.cumulativeSize || 0
GetFileStats(stat) ==
  IF stat.fileSize # 0 THEN stat.fileSize
  ELSE IF stat.cumulativeSize # 0 THEN stat.cumulativeSize
  ELSE 0

\* a size check that lets every size through
SizeUnusable_Never(fileSize) == FALSE

\* main(): !fileSize || fileSize === 0
SizeUnusable(fileSize) == fileSize = 0

\* ------------------------------------------------------ promise and callback
\* A promise settles once: resolve and reject do nothing on a settled promise
\* a resolve() that overwrites a settled promise
Resolve_Overwrite(promise) == "resolved"

Resolve(promise) == IF promise = "pending" THEN "resolved" ELSE promise
Reject(promise) == IF promise = "pending" THEN "rejected" ELSE promise

\* events.forEach(...) of the signAndSend callback
RECURSIVE ForEachEvent(_, _)
ForEachEvent(promise, events) ==
  IF events = <<>> THEN promise
  ELSE ForEachEvent(
         IF Head(events) = "ExtrinsicSuccess" THEN Resolve(promise)
         ELSE IF Head(events) = "ExtrinsicFailed" THEN Reject(promise)
         ELSE promise,
         Tail(events))

\* the signAndSend callback: events are looked at only under status.isInBlock
StatusCallback(promise, status, events) ==
  IF status = "InBlock" THEN ForEachEvent(promise, events) ELSE promise

\* statuses after which the node closes the subscription
ClosesStream(status) == status \in {"Finalized", "Invalid"}

HasMethod(events, m) == \E i \in DOMAIN events : events[i] = m

\* ------------------------------------------------------------------- state
NoSub == [state |-> "none", promise |-> "none", calls |-> 0,
          terminalSeen |-> FALSE, errorSeen |-> FALSE, late |-> FALSE,
          failFirst |-> FALSE]

\* the process exists: main() is under way, or has returned while the ledger
\* socket, which the script never closes, keeps the process alive
Running == pc \notin {"idle", "exited"}

\* the catalog holds up to MaxVideos videos and MaxClips clips with CIDs of cidSet
InitCatalog(cidSet) ==
  /\ videos \in SeqsUpTo(cidSet, MaxVideos)
  /\ clips \in SeqsUpTo(cidSet, MaxClips)

\* before the first run: no log file yet
InitProcess ==
  /\ fileExists = FALSE
  /\ file = <<>>
  /\ run = 1
  /\ pc = "idle"
  /\ exitCode = -1
  /\ processedCids = {}
  /\ loadFailed = FALSE
  /\ itemsToProcess = <<>>
  /\ idx = 0
  /\ sub = [c \in Cids |-> NoSub]
  /\ failed = {}
  /\ logged = {}
  /\ writeFailed = {}
  /\ sentSize = [c \in Cids |-> 0]
  /\ sizeUnavailable = {}
  /\ everSucceeded = {}
  /\ resubmitted = {}
  /\ heliaStopped = FALSE
  /\ prismaClosed = FALSE
  /\ heliaCreated = FALSE
  /\ apiOpen = FALSE
  /\ startupError = "none"
  /\ lostWrites = {}

\* runs with restarts: catalogs over two well-formed CIDs and the malformed one
Init == InitCatalog(RestartCids) /\ InitProcess

\* a single run: catalogs over all of Cids
InitOneRun == InitCatalog(Cids) /\ InitProcess

\* a single run that finds the log file earlier runs left: up to MaxLogged
\* lines, each the CID of an order that succeeded
InitResumed ==
  /\ InitCatalog(Cids)
  /\ file \in SeqsUpTo(ValidCids, MaxLogged)
  /\ fileExists = (file # <<>>)
  /\ everSucceeded = {file[i] : i \in DOMAIN file}
  /\ run = 1
  /\ pc = "idle"
  /\ exitCode = -1
  /\ processedCids = {}
  /\ loadFailed = FALSE
  /\ itemsToProcess = <<>>
  /\ idx = 0
  /\ sub = [c \in Cids |-> NoSub]
  /\ failed = {}
  /\ logged = {}
  /\ writeFailed = {}
  /\ sentSize = [c \in Cids |-> 0]
  /\ sizeUnavailable = {}
  /\ resubmitted = {}
  /\ heliaStopped = FALSE
  /\ prismaClosed = FALSE
  /\ heliaCreated = FALSE
  /\ apiOpen = FALSE
  /\ startupError = "none"
  /\ lostWrites = {}

\* a throw out of main(): .catch logs and calls process.exit(1), which ends the
\* process before the .finally callback runs
\* a handler that ends the process with code 0
Fatal_ExitZero ==
  /\ pc' = "exited"
  /\ exitCode' = 0
  /\ UNCHANGED <<heliaStopped, prismaClosed>>

Fatal ==
  /\ pc' = "exited"
  /\ exitCode' = 1
  /\ UNCHANGED <<heliaStopped, prismaClosed>>

\* main() throws `error` before the loop
Throw(error) ==
  /\ startupError' = error
  /\ Fatal

\* main() returns: helia.stop() was awaited, then .finally disconnects prisma.
\* Nothing closes the ledger socket, so the process and the callbacks it
\* registered live on until the runtime or the operator ends the process
Return ==
  /\ pc' = "returned"
  /\ heliaStopped' = TRUE
  /\ prismaClosed' = TRUE
  /\ UNCHANGED exitCode

\* the for loop reaches item i of items, or runs off the end of the list
LoopTo(i, items) ==
  /\ idx' = i
  /\ IF i <= Len(items)
     THEN /\ pc' = "sizing"
          /\ UNCHANGED <<exitCode, heliaStopped, prismaClosed>>
     ELSE Return

\* a catch block that rethrows, so that the error leaves main()
CatchItem_Rethrow(cid) ==
  /\ failed' = failed \cup {cid}
  /\ Fatal
  /\ UNCHANGED idx

\* the catch block of the loop body: the error is logged and the loop moves on
CatchItem(cid) ==
  /\ failed' = failed \cup {cid}
  /\ LoopTo(idx + 1, itemsToProcess)

\* a write error that leaves logProcessedCid() and main()
WriteError_Thrown(cid) ==
  /\ writeFailed' = writeFailed \cup {cid}
  /\ lostWrites' = (lostWrites \cup {cid}) \ {file[i] : i \in DOMAIN file}
  /\ Fatal
  /\ UNCHANGED idx

\* appendFileSync throws: logProcessedCid() catches and logs the error, main()
\* goes on to the next item
WriteError(cid) ==
  /\ writeFailed' = writeFailed \cup {cid}
  /\ lostWrites' = (lostWrites \cup {cid}) \ {file[i] : i \in DOMAIN file}
  /\ LoopTo(idx + 1, itemsToProcess)

\* main() up to `await createHeliaHTTP`: the configuration check and
\* loadProcessedCids()
Start ==
  /\ pc = "idle"
  /\ \E configOk \in BOOLEAN, readOk \in (IF fileExists THEN BOOLEAN ELSE {TRUE}) :
       IF ~configOk
       THEN /\ Throw("config")
            /\ UNCHANGED <<processedCids, loadFailed, apiOpen>>
       ELSE /\ processedCids' = LoadProcessedCids(fileExists, readOk, file)
            /\ loadFailed' = (fileExists /\ ~readOk)
            /\ apiOpen' = TRUE
            /\ pc' = "heliaInit"
            /\ UNCHANGED <<exitCode, heliaStopped, prismaClosed, startupError>>
  /\ UNCHANGED <<videos, clips, sizeUnavailable, heliaCreated, lostWrites, fileExists, file, run, itemsToProcess, idx, sub, failed,
                 logged, writeFailed, sentSize, everSucceeded, resubmitted>>

\* `await createHeliaHTTP(...)` returns or throws
HeliaCreated ==
  /\ pc = "heliaInit"
  /\ \E ok \in BOOLEAN :
       IF ok THEN /\ pc' = "apiWait"
                  /\ heliaCreated' = TRUE
                  /\ UNCHANGED <<exitCode, heliaStopped, prismaClosed, startupError>>
       ELSE Throw("helia") /\ UNCHANGED heliaCreated
  /\ UNCHANGED <<videos, clips, sizeUnavailable, apiOpen, lostWrites, fileExists, file, run, processedCids, loadFailed,
                 itemsToProcess, idx, sub, failed, logged, writeFailed, sentSize,
                 everSucceeded, resubmitted>>

\* `await api.isReadyOrError` returns or throws
ApiReady ==
  /\ pc = "apiWait"
  /\ \E ok \in BOOLEAN :
       IF ok THEN /\ pc' = "fetching"
                  /\ UNCHANGED <<exitCode, heliaStopped, prismaClosed, startupError>>
       ELSE Throw("ledger")
  /\ UNCHANGED <<videos, clips, sizeUnavailable, heliaCreated, apiOpen, lostWrites, fileExists, file, run, processedCids, loadFailed,
                 itemsToProcess, idx, sub, failed, logged, writeFailed, sentSize,
                 everSucceeded, resubmitted>>

\* the two findMany queries return or throw; main() builds the work list and
\* either returns (nothing to do) or enters the loop and awaits the first
\* getFileStats
Fetch ==
  /\ pc = "fetching"
  /\ \E dbOk \in BOOLEAN :
       IF dbOk
       THEN LET items == BuildWorkList(videos, clips, processedCids)
            IN  /\ itemsToProcess' = items
                /\ LoopTo(1, items)
                /\ UNCHANGED startupError
       ELSE /\ Throw("catalog")
            /\ UNCHANGED <<itemsToProcess, idx>>
  /\ UNCHANGED <<videos, clips, sizeUnavailable, heliaCreated, apiOpen, lostWrites, fileExists, file, run, processedCids, loadFailed, sub,
                 failed, logged, writeFailed, sentSize, everSucceeded, resubmitted>>

\* the item the loop is at
Cur == itemsToProcess[idx].cid

\* `await getFileStats(heliaFs, cid)` returns or throws; on a usable size main()
\* calls placeCrustOrder(), which builds the key pair and the transaction (or
\* throws), calls tx.signAndSend and returns the promise main() awaits;
\* otherwise the catch block runs and the loop moves on
StatDone ==
  /\ pc = "sizing"
  /\ \E statOk \in BOOLEAN, stat \in StatResults, txOk \in BOOLEAN :
       LET fileSize == GetFileStats(stat)
           noSize == ~statOk \/ (stat.fileSize = 0 /\ stat.cumulativeSize = 0)
       IN  /\ sizeUnavailable' = IF noSize THEN sizeUnavailable \cup {Cur}
                                  ELSE sizeUnavailable
           /\ IF ~statOk \/ SizeUnusable(fileSize) \/ ~txOk
              THEN /\ CatchItem(Cur)
                   /\ UNCHANGED <<sub, sentSize, resubmitted>>
              ELSE /\ sub' = [sub EXCEPT ![Cur] = [NoSub EXCEPT !.state = "sending",
                                                                !.promise = "pending"]]
                   /\ sentSize' = [sentSize EXCEPT ![Cur] = fileSize]
                   /\ resubmitted' = IF Cur \in everSucceeded
                                     THEN resubmitted \cup {Cur} ELSE resubmitted
                   /\ pc' = "awaiting"
                   /\ UNCHANGED <<idx, failed, exitCode, heliaStopped, prismaClosed>>
  /\ UNCHANGED <<videos, clips, fileExists, file, run, processedCids, loadFailed,
                 itemsToProcess, logged, writeFailed, everSucceeded, heliaCreated,
                 apiOpen, startupError, lostWrites>>

\* the continuation of `await placeCrustOrder` is a microtask, so it runs
\* before the next status message is handled
\* a call without `await`: main() goes on while the promise is pending
ContinuationDue_NoAwait == pc = "awaiting"

ContinuationDue == pc = "awaiting" /\ sub[Cur].promise \in {"resolved", "rejected"}

\* the promise signAndSend returned rejects (the submission call failed before
\* any status): .catch calls reject(e)
SendFailed ==
  /\ pc = "awaiting"
  /\ sub[Cur].state = "sending"
  /\ sub' = [sub EXCEPT ![Cur].state = "closed",
                        ![Cur].promise = Reject(sub[Cur].promise)]
  /\ UNCHANGED <<videos, clips, sizeUnavailable, heliaCreated, apiOpen, startupError,
                 lostWrites, fileExists, file, run, pc, exitCode, processedCids,
                 loadFailed, itemsToProcess, idx, failed, logged, writeFailed, sentSize,
                 everSucceeded, resubmitted, heliaStopped, prismaClosed>>

\* the node pushes a status for the transaction of c and the callback passed to
\* signAndSend runs; nothing ever unsubscribes it, so c may be any transaction
\* of this run whose stream the node has not closed
StatusUpdate ==
  /\ Running
  /\ ~ContinuationDue
  /\ \E c \in ValidCids, status \in Statuses, events \in EventLists :
       /\ sub[c].state \in {"sending", "open"}
       /\ sub[c].calls < MaxCallbacks
       /\ status # "InBlock" => events = <<>>
       /\ LET before == sub[c].promise
              after == StatusCallback(before, status, events)
              terminal == \/ status = "Invalid"
                          \/ /\ status = "InBlock"
                             /\ \/ HasMethod(events, "ExtrinsicSuccess")
                                \/ HasMethod(events, "ExtrinsicFailed")
          IN  /\ sub' = [sub EXCEPT ![c] =
                   [state |-> IF ClosesStream(status) THEN "closed" ELSE "open",
                    promise |-> after,
                    calls |-> sub[c].calls + 1,
                    terminalSeen |-> sub[c].terminalSeen \/ terminal,
                    errorSeen |-> sub[c].errorSeen \/ (status = "Invalid" /\ before = "pending"),
                    late |-> sub[c].late \/ before # "pending",
                    failFirst |-> sub[c].failFirst
                                  \/ (before = "pending" /\ status = "InBlock"
                                      /\ HasMethod(events, "ExtrinsicFailed"))]]
              /\ everSucceeded' = IF before = "pending" /\ after = "resolved"
                                  THEN everSucceeded \cup {c} ELSE everSucceeded
  /\ UNCHANGED <<videos, clips, sizeUnavailable, heliaCreated, apiOpen, startupError,
                 lostWrites, fileExists, file, run, pc, exitCode, processedCids,
                 loadFailed, itemsToProcess, idx, failed, logged, writeFailed, sentSize,
                 resubmitted, heliaStopped, prismaClosed>>

\* main() resumes after `await placeCrustOrder`: on fulfilment logProcessedCid()
\* appends the CID (or catches the write error), on rejection the catch block
\* runs; either way the loop moves on
Resume ==
  /\ ContinuationDue
  /\ IF sub[Cur].promise = "resolved"
     THEN /\ \E writeOk \in BOOLEAN :
               IF writeOk
               THEN /\ file' = AppendLine(file, Cur)
                    /\ fileExists' = TRUE
                    /\ logged' = logged \cup {Cur}
                    /\ lostWrites' = lostWrites \ {Cur}
                    /\ LoopTo(idx + 1, itemsToProcess)
                    /\ UNCHANGED writeFailed
               ELSE /\ WriteError(Cur)
                    /\ UNCHANGED <<file, fileExists, logged>>
          /\ UNCHANGED failed
     ELSE /\ CatchItem(Cur)
          /\ UNCHANGED <<file, fileExists, logged, writeFailed, lostWrites>>
  /\ UNCHANGED <<videos, clips, sizeUnavailable, heliaCreated, apiOpen, startupError,
                 run, processedCids, loadFailed, itemsToProcess, sub,
                 sentSize, everSucceeded, resubmitted>>

\* after main() has returned the process ends once nothing keeps it alive
Exit ==
  /\ pc = "returned"
  /\ pc' = "exited"
  /\ exitCode' = 0
  /\ UNCHANGED <<videos, clips, sizeUnavailable, heliaCreated, apiOpen, startupError,
                 lostWrites, fileExists, file, run, processedCids, loadFailed,
                 itemsToProcess, idx, sub, failed, logged, writeFailed, sentSize,
                 everSucceeded, resubmitted, heliaStopped, prismaClosed>>

\* what a new process starts from: nothing of the previous process's memory
FreshMemory ==
  /\ processedCids' = {}
  /\ loadFailed' = FALSE
  /\ itemsToProcess' = <<>>
  /\ idx' = 0
  /\ sub' = [c \in Cids |-> NoSub]
  /\ failed' = {}
  /\ logged' = {}
  /\ writeFailed' = {}
  /\ sentSize' = [c \in Cids |-> 0]
  /\ sizeUnavailable' = {}

\* the process is killed from outside at any point of a run: its memory and its
\* subscriptions are gone, the log file stays as it is
Kill ==
  /\ Running
  /\ pc' = "exited"
  /\ exitCode' = 137
  /\ FreshMemory
  /\ UNCHANGED <<videos, clips, fileExists, file, run, everSucceeded, resubmitted,
                 heliaStopped, prismaClosed, heliaCreated, apiOpen, startupError,
                 lostWrites>>

\* the operator starts the script again: only the log file and the catalog
\* outlive a process
Restart ==
  /\ pc = "exited"
  /\ run < MaxRuns
  /\ run' = run + 1
  /\ pc' = "idle"
  /\ exitCode' = -1
  /\ FreshMemory
  /\ heliaStopped' = FALSE
  /\ prismaClosed' = FALSE
  /\ heliaCreated' = FALSE
  /\ apiOpen' = FALSE
  /\ startupError' = "none"
  /\ UNCHANGED <<videos, clips, fileExists, file, everSucceeded, resubmitted, lostWrites>>

Next ==
  \/ Start
  \/ HeliaCreated
  \/ ApiReady
  \/ Fetch
  \/ StatDone
  \/ SendFailed
  \/ StatusUpdate
  \/ Resume
  \/ Exit
  \/ Kill
  \/ Restart

Spec == Init /\ [][Next]_vars

\* one run of the script, from start to the end of the process
NextOneRun ==
  \/ Start
  \/ HeliaCreated
  \/ ApiReady
  \/ Fetch
  \/ StatDone
  \/ SendFailed
  \/ StatusUpdate
  \/ Resume
  \/ Exit
  \/ Kill

OneRunSpec == InitOneRun /\ [][NextOneRun]_vars

\* one run of the script over the log file of earlier runs
ResumedSpec == InitResumed /\ [][NextOneRun]_vars

TypeOK ==
  /\ pc \in {"idle", "heliaInit", "apiWait", "fetching", "sizing", "awaiting", "returned", "exited"}
  /\ run \in 1..MaxRuns
  /\ processedCids \subseteq Cids
  /\ idx \in 0..(Len(itemsToProcess) + 1)

\* -------------------------------------------------------------- properties
Range(s) == {s[i] : i \in DOMAIN s}

\* the log file holds a line for c
InFile(c) == c \in Range(file)

\* this step calls signAndSend for c
Submits(c) == sub[c].state = "none" /\ sub'[c].state = "sending"

Settled(c) == sub[c].promise \in {"resolved", "rejected"}

\* the loop of this run has left the iteration of c behind
MovedPast(c) == \E i \in DOMAIN itemsToProcess : itemsToProcess[i].cid = c /\ i < idx

\* main() ran the loop to its end and returned
RunComplete == pc = "returned" \/ (pc = "exited" /\ exitCode = 0)

NoDupCids(items) ==
  \A i, j \in DOMAIN items : items[i].cid = items[j].cid => i = j

\* C1, as stated: over runs with kills and restarts, no CID whose order was
\* seen to succeed on chain is ever submitted again.
C1_NeverResubmitted == resubmitted = {}

\* C1, amended: a run never submits a CID that loadProcessedCids() returned,
\* so a CID whose order succeeded is submitted again only by a run whose
\* loaded checkpoint set does not hold it.
C1_ResubmitOnlyIfNotLoaded ==
  [][\A c \in Cids : Submits(c) => c \notin processedCids]_vars

\* a second run has finished without submitting a CID that succeeded earlier
\* and that it loaded from the log file
C1_Witness ==
  /\ run = 2
  /\ pc = "returned"
  /\ \E c \in Range(videos) \cup Range(clips) :
       c \in everSucceeded /\ c \in processedCids /\ sub[c].state = "none"

\* C2: no run submits an order for a CID that the log file holds when the run
\* starts (a CID is appended in a run only after that run submitted it, so the
\* file holds it at the submission exactly if it held it at the start).
C2_NoSubmitOfCheckpointed ==
  [][\A c \in Cids : Submits(c) => ~InFile(c)]_vars

\* C3, as stated: in every state the log file holds a record for a CID if and
\* only if its order reached success: a record only after a success, none for
\* a failed item, and one for every succeeded item the loop has moved past.
C3_RecordIffSuccess ==
  \A c \in Cids :
    /\ InFile(c) => c \in everSucceeded
    /\ c \in failed => c \notin logged
    /\ (sub[c].promise = "resolved" /\ MovedPast(c)) => InFile(c)

\* C3, amended: a record exists only after a success and never for a failed
\* item; a succeeded item the loop has moved past has a record unless
\* appendFileSync threw for it.
C3_RecordOnlyIfSuccess ==
  \A c \in Cids :
    /\ InFile(c) => c \in everSucceeded
    /\ c \in failed => c \notin logged
    /\ (sub[c].promise = "resolved" /\ MovedPast(c)) => (InFile(c) \/ c \in writeFailed)

\* the loop has moved past a succeeded item that has its record and past a
\* failed item that has none
C3_Witness ==
  \E c, d \in Cids :
    /\ sub[c].promise = "resolved" /\ MovedPast(c) /\ InFile(c)
    /\ d \in failed /\ MovedPast(d) /\ ~InFile(d)

\* C4: whatever items fail at size resolution, at the submission call or by
\* an on-chain rejection, the run is not aborted: when main() returns, every
\* item of the work list was processed, every succeeded item is in the log
\* file (its write not having failed) and no failed item is; only the startup
\* errors, before the loop, end the run with exit code 1.
C4_FailuresIsolated ==
  /\ exitCode = 1 => idx = 0
  /\ RunComplete =>
       \A i \in DOMAIN itemsToProcess :
         LET c == itemsToProcess[i].cid
         IN  /\ c \in failed \/ sub[c].promise = "resolved"
             /\ (sub[c].promise = "resolved" /\ c \notin writeFailed) => InFile(c)
             /\ c \in failed => ~InFile(c)

\* [X, Y, Z] where only Y's submission fails: X and Z are in the log file
C4_Witness ==
  /\ RunComplete
  /\ Len(itemsToProcess) = 3
  /\ LET X == itemsToProcess[1].cid
         Y == itemsToProcess[2].cid
         Z == itemsToProcess[3].cid
     IN  /\ failed = {Y} /\ sub[Y].promise = "rejected"
         /\ InFile(X) /\ InFile(Z) /\ ~InFile(Y)

\* C5: every submission delivers exactly one outcome: the promise is settled
\* once a terminal event (an InBlock status carrying a success or failure
\* event, or an error status) has been handled, and a settled promise never
\* changes.
C5_ExactlyOneOutcome ==
  [][\A c \in Cids :
       /\ sub'[c].terminalSeen => sub'[c].promise \in {"resolved", "rejected"}
       /\ (Settled(c) /\ sub'[c].promise # "none") => sub'[c].promise = sub[c].promise]_vars

\* C6: after a submission's promise has settled, the callback handles no
\* further status of that submission.
C6_DetachedAfterTerminal == \A c \in Cids : ~sub[c].late

\* C7: an error status that arrives while the promise is pending rejects it,
\* and the CID is not written to the log file in this run.
C7_StreamErrorFails ==
  \A c \in Cids : sub[c].errorSeen => (sub[c].promise = "rejected" /\ c \notin logged)

\* C8: if the event list of the InBlock status that is handled while the
\* promise is pending holds an ExtrinsicFailed event, the promise is rejected
\* and the CID is not written to the log file in this run.
C8_FailureEventFails ==
  \A c \in Cids : sub[c].failFirst => (sub[c].promise = "rejected" /\ c \notin logged)

\* C9: a missing log file loads as the empty set and the run goes on; a log
\* file that exists but cannot be read ends the run with exit code 1 before
\* any submission.
C9_UnreadableStoreIsFatal ==
  /\ (Running /\ ~fileExists /\ logged = {}) => processedCids = {}
  /\ loadFailed => (pc = "exited" /\ exitCode = 1 /\ \A c \in Cids : sub[c].state = "none")

\* C10: the deduplicated list and the work list hold each CID at most once.
C10_WorkListDistinct ==
  /\ NoDupCids(UniqueCids(ValidItems(AllItems(videos, clips))))
  /\ NoDupCids(itemsToProcess)

\* a video and a clip share a CID, and the work list holds it
C10_Witness ==
  \E i \in DOMAIN videos, j \in DOMAIN clips :
    /\ videos[i] = clips[j]
    /\ \E k \in DOMAIN itemsToProcess : itemsToProcess[k].cid = videos[i]

\* the CIDs of a list of items, in its order
CidsOf(items) == [i \in DOMAIN items |-> items[i].cid]

\* the catalog rows in query order: the videos, then the clips
CatalogCids == videos \o clips

\* the well-formed CIDs of all that are not in `processed`, each at the place
\* of its first occurrence in all
RECURSIVE FirstOccurrences(_, _, _)
FirstOccurrences(all, seen, processed) ==
  IF all = <<>> THEN <<>>
  ELSE LET c == Head(all)
       IN  IF c \in ValidCids /\ c \notin seen /\ c \notin processed
           THEN <<c>> \o FirstOccurrences(Tail(all), seen \cup {c}, processed)
           ELSE FirstOccurrences(Tail(all), seen \cup {c}, processed)

\* the loop is running or has run over the work list of this run
WorkListBuilt == pc \in {"sizing", "awaiting", "returned"}

\* C11: the work list is the sequence of distinct, valid CIDs that the loaded
\* checkpoint set does not hold, in the order of their first occurrence in the
\* catalog, and a CID is submitted only when the loop has reached its place in
\* that order, all earlier items being done.
C11_OrderPreserved ==
  /\ CidsOf(BuildWorkList(videos, clips, processedCids))
       = FirstOccurrences(CatalogCids, {}, processedCids)
  /\ WorkListBuilt =>
       /\ CidsOf(itemsToProcess) = FirstOccurrences(CatalogCids, {}, processedCids)
       /\ \A j \in DOMAIN itemsToProcess :
            sub[itemsToProcess[j].cid].state # "none" => j <= idx

\* catalog [A, B, C] with B checkpointed: the work list is [A, C], and both
\* were submitted
C11_Witness ==
  /\ Len(videos) = 2 /\ Len(clips) = 1
  /\ Cardinality({videos[1], videos[2], clips[1]}) = 3
  /\ processedCids = {videos[2]}
  /\ pc = "returned"
  /\ CidsOf(itemsToProcess) = <<videos[1], clips[1]>>
  /\ sub[videos[1]].state # "none" /\ sub[clips[1]].state # "none"

\* C12: an item for which fs.stat threw or reported no size is never
\* submitted in this run: it ends in the catch block, is not written to the
\* log file, and the run is not aborted; every order that is submitted
\* carries a size above 0.
C12_NoOrderWithoutSize ==
  /\ \A c \in sizeUnavailable :
       /\ sub[c].state = "none" /\ sentSize[c] = 0
       /\ c \in failed /\ c \notin logged
  /\ sizeUnavailable # {} => exitCode # 1
  /\ \A c \in Cids : sub[c].state # "none" => sentSize[c] > 0

\* an item without a size was left behind without an order, and the loop went
\* on to submit a later item
C12_Witness ==
  \E i, j \in DOMAIN itemsToProcess :
    /\ i < j
    /\ itemsToProcess[i].cid \in sizeUnavailable
    /\ sub[itemsToProcess[i].cid].state = "none"
    /\ sub[itemsToProcess[j].cid].state # "none"

\* C13: a record whose CID fails isValidCID() is left out of the work list, is
\* never the item being sized or submitted, gets no line in the log file and
\* is not counted as failed; its presence in the catalog does not abort the
\* run (exit code 1 only comes from the startup errors, before the loop).
C13_InvalidSkipped ==
  /\ \A c \in Cids \ ValidCids :
       /\ c \notin Range(CidsOf(itemsToProcess))
       /\ c \notin Range(CidsOf(BuildWorkList(videos, clips, processedCids)))
       /\ sub[c].state = "none" /\ sentSize[c] = 0
       /\ c \notin sizeUnavailable /\ c \notin failed
       /\ c \notin logged /\ c \notin writeFailed /\ ~InFile(c)
  /\ pc \in {"sizing", "awaiting"} => Cur \in ValidCids
  /\ exitCode = 1 => startupError # "none"

\* the catalog begins with a record of invalid CID, and the run went on to
\* the end, where a valid CID of a later record has its line in the log file
C13_Witness ==
  /\ videos # <<>> /\ videos[1] \notin ValidCids
  /\ RunComplete
  /\ \E c \in Range(CatalogCids) : c \in ValidCids /\ c \in logged /\ InFile(c)

\* the four classes a run puts a CID of the catalog in
MigratedThisRun(c) == sub[c].promise = "resolved"
AlreadyMigrated(c) == c \in processedCids
SkippedInvalid(c) == c \notin ValidCids
FailedThisRun(c) == c \in failed

Classes(c) ==
  {k \in {"migrated", "already", "skipped", "failed"} :
     \/ k = "migrated" /\ MigratedThisRun(c)
     \/ k = "already" /\ AlreadyMigrated(c)
     \/ k = "skipped" /\ SkippedInvalid(c)
     \/ k = "failed" /\ FailedThisRun(c)}

\* C14: a CID of the catalog is never in two of the classes {migrated in this
\* run, in the checkpoint set loaded at startup, skipped as invalid, failed in
\* this run}, and when main() has returned every CID of the catalog is in
\* exactly one of them.
C14_NoSilentDrops ==
  /\ \A c \in Cids : Cardinality(Classes(c)) <= 1
  /\ RunComplete => \A c \in Range(CatalogCids) : Cardinality(Classes(c)) = 1

\* a second run has returned with one CID loaded from the log file, one
\* skipped as invalid and one failed
C14_Witness ==
  /\ run = 2
  /\ pc = "returned"
  /\ \E a, b, c \in Range(CatalogCids) :
       /\ Classes(a) = {"already"}
       /\ Classes(b) = {"skipped"}
       /\ Classes(c) = {"failed"}

\* C15: when the process has ended by itself (code 0 or 1), the Helia client,
\* if one was created, was stopped, and the ledger connection opened by new
\* ApiPromise was closed.
C15_ReleasedOnEveryExit ==
  (pc = "exited" /\ exitCode \in {0, 1}) =>
    /\ heliaCreated => heliaStopped
    /\ ~apiOpen

\* C16: an error thrown by main() before the loop (configuration missing,
\* Helia or ledger not coming up, catalog query failing) ends the process
\* with exit code 1 with no item sized or submitted and no write to the log
\* file attempted.
C16_StartupErrorAborts ==
  startupError # "none" =>
    /\ pc = "exited" /\ exitCode = 1
    /\ idx = 0 /\ itemsToProcess = <<>>
    /\ \A c \in Cids : sub[c].state = "none" /\ sentSize[c] = 0
    /\ sizeUnavailable = {} /\ failed = {}
    /\ logged = {} /\ writeFailed = {} /\ file = <<>>

\* the ledger did not come up although the catalog holds a valid CID: the
\* process has ended with code 1 and nothing was touched
C16_Witness ==
  /\ startupError = "ledger"
  /\ exitCode = 1
  /\ \E c \in Range(CatalogCids) : c \in ValidCids /\ sub[c].state = "none"

\* CIDs whose promise is pending
InFlight == {c \in Cids : sub[c].promise = "pending"}

\* place of c in the work list
Pos(c) == CHOOSE i \in DOMAIN itemsToProcess : itemsToProcess[i].cid = c

\* C17: at most one promise is pending, and it is the one of the item main()
\* awaits; every item before the current one has either been delivered its
\* success or is in the failed set; while the run is in or past its loop, the
\* lines of the log file are in the order of the work list.
C17_StrictlySequential ==
  /\ Cardinality(InFlight) <= 1
  /\ \A c \in InFlight : pc = "awaiting" /\ Cur = c
  /\ \A j \in DOMAIN itemsToProcess :
       j < idx => \/ sub[itemsToProcess[j].cid].promise = "resolved"
                  \/ itemsToProcess[j].cid \in failed
  /\ WorkListBuilt =>
       \A a \in DOMAIN file :
         /\ file[a] \in Range(CidsOf(itemsToProcess))
         /\ \A b \in DOMAIN file : a < b => Pos(file[a]) < Pos(file[b])

\* three items were processed one after the other, and the log file holds
\* their three lines in the order of the work list
C17_Witness ==
  /\ Len(itemsToProcess) = 3
  /\ pc = "returned"
  /\ file = CidsOf(itemsToProcess)

\* C18: a failed append does not end the run: the item stays a success, the
\* loop moves past it and main() returns with every item processed; a CID
\* whose append failed in an earlier run and that has no line in the log
\* file since is in the work list of the next run.
C18_WriteFailureTolerated ==
  /\ writeFailed # {} => exitCode # 1
  /\ \A c \in writeFailed :
       /\ MovedPast(c)
       /\ sub[c].promise = "resolved" /\ c \notin failed
  /\ (RunComplete /\ writeFailed # {}) =>
       \A i \in DOMAIN itemsToProcess :
         \/ sub[itemsToProcess[i].cid].promise = "resolved"
         \/ itemsToProcess[i].cid \in failed
  /\ WorkListBuilt =>
       \A c \in lostWrites \ writeFailed : c \in Range(CidsOf(itemsToProcess))

\* the append of a succeeded CID failed in the first run; the second run has
\* it in its work list and has submitted it again
C18_Witness ==
  /\ run = 2
  /\ \E c \in lostWrites \ writeFailed :
       /\ c \in Range(CidsOf(itemsToProcess))
       /\ sub[c].state # "none"

\* the first record of items that carries cid
FirstSeen(items, cid) ==
  items[CHOOSE i \in DOMAIN items :
          /\ items[i].cid = cid
          /\ \A j \in DOMAIN items : items[j].cid = cid => i <= j]

\* C19: the item the work list holds for a CID is the first valid record of
\* the catalog that carries this CID.
C19_FirstSeenRetained ==
  LET valid == ValidItems(AllItems(videos, clips))
      built == BuildWorkList(videos, clips, processedCids)
  IN  /\ \A k \in DOMAIN built : built[k] = FirstSeen(valid, built[k].cid)
      /\ WorkListBuilt =>
           \A k \in DOMAIN itemsToProcess :
             itemsToProcess[k] = FirstSeen(valid, itemsToProcess[k].cid)

\* this step is a call of the signAndSend callback of c
CallbackOf(c) == sub'[c].calls = sub[c].calls + 1

\* C20: a call of the callback of one item leaves the subscription and the
\* promise of every other item as they were, does not change an outcome its
\* own promise has already delivered, and writes nothing to the log file or
\* the failed set: an item's outcome and record come from its own stream only.
C20_StreamsIsolated ==
  [][\A c \in Cids :
       CallbackOf(c) =>
         /\ \A d \in Cids \ {c} : sub'[d] = sub[d]
         /\ Settled(c) => sub'[c].promise = sub[c].promise
         /\ file' = file /\ logged' = logged /\ failed' = failed
         /\ idx' = idx /\ pc' = pc]_vars

\* the callback of an earlier, settled item was called again, and a later
\* item is awaited with its promise pending
C20_Witness ==
  /\ pc = "awaiting"
  /\ sub[Cur].promise = "pending"
  /\ \E c \in Cids \ {Cur} : sub[c].late /\ MovedPast(c)

====
